---- MODULE Spec2Model ----
(***************************************************************************)
(* Model of the three long-running programs of the repository:             *)
(*   - the background worker   (microservices/worker-service/worker.py)    *)
(*   - the REST API service    (microservices/api-service/app.py)          *)
(*   - the policy exporter     (observability/policy-metrics-exporter.py)  *)
(* The worker and the API share one relational table, items.               *)
(*                                                                         *)
(* Conventions.                                                            *)
(*  * Timestamps are whole days; created_at and datetime.now() are         *)
(*    compared with <, which reads the same in any unit.                   *)
(*  * A database call that can raise is named by a "fault": the first step *)
(*    of the function's try block that raises ("none": no step raises).    *)
(*    psycopg2.connect failing is the connect outcome "refused".           *)
(*  * connection.close() is the release itself and is taken to complete.   *)
(*  * A transaction changes the table when commit() completes; a           *)
(*    connection closed or dropped before commit leaves the table alone.   *)
(***************************************************************************)
EXTENDS Integers, Sequences, FiniteSets, TLC

VARIABLES
    \* ---- the database
    store,        \* rows of table items: records [id, created_at]
    schema,       \* TRUE once table items exists
    nextId,       \* the SERIAL sequence of items.id
    now,          \* the wall clock, in days
    \* ---- worker.py
    wpc,          \* position of run_worker
    iteration,    \* run_worker's local iteration
    sleeps,       \* completed time.sleep(WORKER_INTERVAL) calls
    slept,        \* sequence of the durations passed to time.sleep
    initResults,  \* return values of the initialize_database calls so far
    cleanupTicks, \* iterations on which cleanup_old_items was called
    wOpen,        \* connections opened by worker tasks and not closed
    lastCall,     \* observation of the worker task that ran last
    cleanupNow,   \* the datetime.now() read by the cleanup_old_items call under way
    \* ---- app.py
    REQUEST_COUNT,    \* Counter api_requests_total: child labels -> value
    REQUEST_DURATION, \* Histogram api_request_duration_seconds: child labels -> observations
    ITEMS_TOTAL,      \* Gauge api_items_total
    apiOpen,          \* connections opened by request handlers and not closed
    requests,         \* requests answered so far
    lastResp,         \* observation of the request answered last
    threads,          \* the request threads of the server: position and locals
    lockOf,           \* the lock of each counter child: the thread holding it, or 0
    \* ---- policy-metrics-exporter.py
    epc,                        \* position of main
    POLICY_VIOLATIONS,          \* Counter policy_violations_total
    POLICY_VALIDATION_DURATION, \* Gauge policy_validation_duration_seconds
    VULNERABILITY_COUNT,        \* Gauge vulnerability_count
    DEPLOYMENT_BLOCKED,         \* Counter deployment_blocked_total
    VULNERABILITY_SCAN_STATUS,  \* Gauge vulnerability_scan_status
    eticks,                     \* collect_gatekeeper_violations calls so far
    lastCollect                 \* observation of the call that has just returned

dbvars == <<store, schema, nextId, now>>
wvars  == <<wpc, iteration, sleeps, slept, initResults, cleanupTicks, wOpen, lastCall,
           cleanupNow>>
tvars  == <<threads, lockOf>>
avars  == <<REQUEST_COUNT, REQUEST_DURATION, ITEMS_TOTAL, apiOpen, requests, lastResp, tvars>>
emetrics == <<POLICY_VIOLATIONS, POLICY_VALIDATION_DURATION, VULNERABILITY_COUNT,
              DEPLOYMENT_BLOCKED, VULNERABILITY_SCAN_STATUS>>
evars  == <<epc, emetrics, eticks, lastCollect>>
vars   == <<dbvars, wvars, avars, evars>>

----------------------------------------------------------------------------
\* Bounds of the model
MaxRows  == 3      \* rows the table may hold initially
MaxDays  == 2      \* days the clock may advance
MaxIter  == 11     \* ticks of run_worker that are explored
MaxRequests == 3   \* HTTP requests that are explored
MaxExpTicks == 2   \* ticks of the exporter that are explored
MaxViolations == 3 \* violation entries one constraint may hold
MaxPods == 2       \* application pods without an app label
MaxMixed == 3      \* counter updates of requests and exporter ticks explored side by side
MaxThreads == 2    \* requests the server handles at the same time
MaxWrites == 2     \* POST and DELETE requests explored beside a cleanup run

\* Program constants
CLEANUP_DAYS     == 30    \* worker.py:31
WORKER_INTERVAL  == 60    \* worker.py:30
INIT_BACKOFF     == 10    \* worker.py:139
CLEANUP_EVERY    == 10    \* worker.py:153

Absent == "None"          \* get_db_connection's failure result
Conn   == "conn"          \* an open connection object
Raise  == "raise"         \* an exception leaving the function

ConnectOutcomes == {"ok", "refused"}

----------------------------------------------------------------------------
\* Steps of a try block, and which of them a fault lets through

IndexOf(steps, s) == CHOOSE i \in 1..Len(steps) : steps[i] = s

\* step s ran to completion
Done(steps, f, s) ==
    \/ f = "none"
    \/ IndexOf(steps, s) < IndexOf(steps, f)

\* step s was called (it completed or it is the one that raised)
Called(steps, f, s) ==
    \/ f = "none"
    \/ IndexOf(steps, s) <= IndexOf(steps, f)

Range(seq) == {seq[i] : i \in 1..Len(seq)}

\* A statement on table items raises when the table does not exist.
Effective(steps, f, stmt, tableThere) ==
    IF ~tableThere /\ Done(steps, f, stmt) THEN stmt ELSE f

----------------------------------------------------------------------------
\* worker.py

\* psycopg2's connection.close(): one connection fewer is open
conn_close(n) == n - 1

get_db_connection_noexcept(outcome) ==
    IF outcome = "ok" THEN Conn ELSE Raise

\* worker.py get_db_connection (app.py holds the same function)
get_db_connection(outcome) ==
    IF outcome = "ok" THEN Conn ELSE Absent

\* What a worker task hands back to the model: its return value, whether an
\* exception left it, the table afterwards, and what it did on the way.
TaskResult(ret, raised, st, sch, open, executes, commits) ==
    [ret |-> ret, raised |-> raised, store |-> st, schema |-> sch,
     open |-> open, executes |-> executes, commits |-> commits]

CleanupSteps == <<"cursor", "execute", "commit", "cur_close">>
PendingSteps == <<"cursor", "execute", "fetch", "cur_close">>
InitSteps    == <<"cursor", "execute_table", "execute_index", "commit", "cur_close">>

B2N(b) == IF b THEN 1 ELSE 0

cleanup_except_noclose(open) == open

\* the except clause of cleanup_old_items
cleanup_except(open) == conn_close(open)

stale_le(row, cleanup_date) == row.created_at <= cleanup_date

stale_all(row, cleanup_date) == TRUE

\* the WHERE clause of cleanup_old_items' DELETE
stale(row, cleanup_date) == row.created_at < cleanup_date

cleanup_old_items_per_row(st, sch, t, outcome, fault) ==
    LET conn == get_db_connection(outcome)
        f    == Effective(CleanupSteps, fault, "execute", sch)
        kept == {r \in st : ~stale(r, t - CLEANUP_DAYS)}
    IN  IF conn = Absent THEN TaskResult("None", FALSE, st, sch, 0, 0, 0)
        ELSE TaskResult(
                "None", FALSE,
                IF Done(CleanupSteps, f, "commit") THEN kept ELSE st,
                sch,
                IF f = "none" THEN conn_close(1) ELSE cleanup_except(1),
                IF Called(CleanupSteps, f, "execute") THEN Cardinality(st \ kept) ELSE 0,
                B2N(Called(CleanupSteps, f, "commit")))

\* worker.py cleanup_old_items
cleanup_old_items(st, sch, t, outcome, fault) ==
    LET conn == get_db_connection(outcome)
        f    == Effective(CleanupSteps, fault, "execute", sch)
        cleanup_date == t - CLEANUP_DAYS
        kept == {r \in st : ~stale(r, cleanup_date)}
    IN  IF conn = Raise THEN TaskResult("None", TRUE, st, sch, 0, 0, 0)
        ELSE IF conn = Absent THEN TaskResult("None", FALSE, st, sch, 0, 0, 0)
        ELSE TaskResult(
                "None", FALSE,
                IF Done(CleanupSteps, f, "commit") THEN kept ELSE st,
                sch,
                IF f = "none" THEN conn_close(1) ELSE cleanup_except(1),
                B2N(Called(CleanupSteps, f, "execute")),
                B2N(Called(CleanupSteps, f, "commit")))

\* the except clause of process_pending_tasks
pending_except(open) == conn_close(open)

process_pending_tasks(st, sch, outcome, fault) ==
    LET conn == get_db_connection(outcome)
        f    == Effective(PendingSteps, fault, "execute", sch)
    IN  IF conn = Raise THEN TaskResult("None", TRUE, st, sch, 0, 0, 0)
        ELSE IF conn = Absent THEN TaskResult("None", FALSE, st, sch, 0, 0, 0)
        ELSE TaskResult(
                "None", FALSE, st, sch,
                IF f = "none" THEN conn_close(1) ELSE pending_except(1),
                B2N(Called(PendingSteps, f, "execute")),
                0)

\* the except clause of initialize_database
init_except(open) == conn_close(open)

initialize_database(st, sch, outcome, fault) ==
    LET conn == get_db_connection(outcome)
        f    == fault
    IN  IF conn = Raise THEN TaskResult(FALSE, TRUE, st, sch, 0, 0, 0)
        ELSE IF conn = Absent THEN TaskResult(FALSE, FALSE, st, sch, 0, 0, 0)
        ELSE TaskResult(
                f = "none", FALSE, st,
                sch \/ Done(InitSteps, f, "commit"),
                IF f = "none" THEN conn_close(1) ELSE init_except(1),
                B2N(Called(InitSteps, f, "execute_table"))
                    + B2N(Called(InitSteps, f, "execute_index")),
                B2N(Called(InitSteps, f, "commit")))

Faults(steps) == Range(steps) \cup {"none"}

\* The ways one call can go: the connect is refused, or it succeeds and the
\* try block runs with one of its faults.
Calls(steps) ==
    {[outcome |-> "refused", fault |-> "none"]}
        \cup {[outcome |-> "ok", fault |-> f] : f \in Faults(steps)}

NoCall ==
    [task |-> "none", outcome |-> "none", fault |-> "none", at |-> 0,
     before |-> {}, schemaBefore |-> FALSE, result |-> TaskResult("None", FALSE, {}, FALSE, 0, 0, 0)]

Observed(task, outcome, fault, r) ==
    [task |-> task, outcome |-> outcome, fault |-> fault, at |-> now,
     before |-> store, schemaBefore |-> schema, result |-> r]

InitRows == {[id |-> i, created_at |-> i - 1] : i \in 1..MaxRows}
StartDay == CLEANUP_DAYS + 1

DbInit ==
    /\ schema \in BOOLEAN
    /\ store \in (IF schema THEN SUBSET InitRows ELSE {{}})
    /\ nextId = MaxRows + 1
    /\ now = StartDay

WorkerInit ==
    /\ wpc = "start"
    /\ iteration = 0
    /\ sleeps = 0
    /\ slept = <<>>
    /\ initResults = <<>>
    /\ cleanupTicks = {}
    /\ wOpen = 0
    /\ lastCall = NoCall
    /\ cleanupNow = 0

\* Effect of one worker task call on the database and on the observations
Ran(task, outcome, fault, r) ==
    /\ store' = r.store
    /\ schema' = r.schema
    /\ wOpen' = wOpen + r.open
    /\ lastCall' = Observed(task, outcome, fault, r)
    /\ UNCHANGED <<nextId, now, avars, evars>>

\* run_worker, lines 137-139: a failed first attempt leads to the backoff
AfterFirstInit(ret) == IF ~ret THEN "backoff" ELSE "loop"

AfterRetry_again(ret) == IF ~ret THEN "backoff" ELSE "loop"

\* run_worker, lines 140-142: the retry's result is not looked at
AfterRetry(ret) == "loop"

\* run_worker, line 137: the first initialize_database call
InitDatabaseFirst ==
    /\ wpc = "start"
    /\ \E c \in Calls(InitSteps) :
          LET r == initialize_database(store, schema, c.outcome, c.fault)
          IN  /\ Ran("initialize_database", c.outcome, c.fault, r)
              /\ initResults' = Append(initResults, r.ret)
              /\ wpc' = IF r.raised THEN "crashed" ELSE AfterFirstInit(r.ret)
    /\ iteration' = 0
    /\ UNCHANGED <<sleeps, slept, cleanupTicks, cleanupNow>>

\* run_worker, line 139: time.sleep(10)
Backoff ==
    /\ wpc = "backoff"
    /\ slept' = Append(slept, INIT_BACKOFF)
    /\ wpc' = "retry"
    /\ UNCHANGED <<evars, avars, dbvars, iteration, sleeps, initResults, cleanupTicks, wOpen, lastCall, cleanupNow>>

\* run_worker, line 140: the retry, whose result is not looked at
InitDatabaseRetry ==
    /\ wpc = "retry"
    /\ \E c \in Calls(InitSteps) :
          LET r == initialize_database(store, schema, c.outcome, c.fault)
          IN  /\ Ran("initialize_database", c.outcome, c.fault, r)
              /\ initResults' = Append(initResults, r.ret)
              /\ wpc' = IF r.raised THEN "crashed" ELSE AfterRetry(r.ret)
    /\ iteration' = 0
    /\ UNCHANGED <<sleeps, slept, cleanupTicks, cleanupNow>>

\* run_worker, lines 144-147: the top of the loop body
TickBegin ==
    /\ wpc = "loop"
    /\ iteration < MaxIter
    /\ iteration' = iteration + 1
    /\ wpc' = "pending"
    /\ UNCHANGED <<evars, avars, dbvars, sleeps, slept, initResults, cleanupTicks, wOpen, lastCall, cleanupNow>>

\* where an exception raised inside the loop's try block lands (line 158)
OnTickError == "sleep"

\* run_worker, line 150
RunPending ==
    /\ wpc = "pending"
    /\ \E c \in Calls(PendingSteps) :
          LET r == process_pending_tasks(store, schema, c.outcome, c.fault)
          IN  /\ Ran("process_pending_tasks", c.outcome,
                     Effective(PendingSteps, c.fault, "execute", schema), r)
              /\ wpc' = IF r.raised THEN OnTickError ELSE "check"
    /\ UNCHANGED <<iteration, sleeps, slept, initResults, cleanupTicks, cleanupNow>>

cleanup_due_first(n) == (n - 1) % CLEANUP_EVERY = 0

\* run_worker, line 153
cleanup_due(n) == n % CLEANUP_EVERY = 0

\* run_worker, lines 153-154 when the tick is a cleanup tick
RunCleanup ==
    /\ wpc = "check"
    /\ cleanup_due(iteration)
    /\ \E c \in Calls(CleanupSteps) :
          LET r == cleanup_old_items(store, schema, now, c.outcome, c.fault)
          IN  /\ Ran("cleanup_old_items", c.outcome,
                     Effective(CleanupSteps, c.fault, "execute", schema), r)
              /\ wpc' = IF r.raised THEN OnTickError ELSE "sleep"
    /\ cleanupTicks' = cleanupTicks \cup {iteration}
    /\ UNCHANGED <<iteration, sleeps, slept, initResults, cleanupNow>>

\* run_worker, line 153 when it is not
SkipCleanup ==
    /\ wpc = "check"
    /\ ~cleanup_due(iteration)
    /\ wpc' = "sleep"
    /\ UNCHANGED <<evars, avars, dbvars, iteration, sleeps, slept, initResults, cleanupTicks, wOpen, lastCall, cleanupNow>>

AfterSleep_exit == "exited"

\* run_worker, lines 144 and 162: after the sleep the while loop goes round
AfterSleep == "loop"

\* run_worker, line 162
Sleep ==
    /\ wpc = "sleep"
    /\ slept' = Append(slept, WORKER_INTERVAL)
    /\ sleeps' = sleeps + 1
    /\ wpc' = AfterSleep
    /\ UNCHANGED <<evars, avars, dbvars, iteration, initResults, cleanupTicks, wOpen, lastCall, cleanupNow>>

WorkerNext ==
    \/ InitDatabaseFirst
    \/ Backoff
    \/ InitDatabaseRetry
    \/ TickBegin
    \/ RunPending
    \/ RunCleanup
    \/ SkipCleanup
    \/ Sleep

\* the clock moves on by a day
ClockAdvance ==
    /\ now < StartDay + MaxDays
    /\ now' = now + 1
    /\ UNCHANGED <<store, schema, nextId, wvars, avars, evars>>

\* The call of cleanup_old_items (run_worker, lines 153-154) as the two steps
\* that other processes can come between: it connects and reads the clock
\* for its cut-off (lines 44-51), and later its DELETE reaches the database
\* and is committed (lines 53-67).

\* cleanup_old_items, lines 44-51: a refused connection or a failing cursor()
\* ends the call here; otherwise datetime.now() is read
CleanupBegin ==
    /\ wpc = "check"
    /\ cleanup_due(iteration)
    /\ \/ \E c \in {[outcome |-> "refused", fault |-> "none"],
                     [outcome |-> "ok", fault |-> "cursor"]} :
             LET r == cleanup_old_items(store, schema, now, c.outcome, c.fault)
             IN  /\ Ran("cleanup_old_items", c.outcome, c.fault, r)
                 /\ wpc' = IF r.raised THEN OnTickError ELSE "sleep"
                 /\ UNCHANGED cleanupNow
       \/ /\ get_db_connection("ok") = Conn
          /\ wOpen' = wOpen + 1
          /\ cleanupNow' = now
          /\ wpc' = "deleting"
          /\ UNCHANGED <<dbvars, avars, evars, lastCall>>
    /\ cleanupTicks' = cleanupTicks \cup {iteration}
    /\ UNCHANGED <<iteration, sleeps, slept, initResults>>

\* cleanup_old_items, lines 53-67: the DELETE with the cut-off computed in
\* line 51, the commit, and the close of the connection on either way out
CleanupDelete ==
    /\ wpc = "deleting"
    /\ \E fault \in Faults(CleanupSteps) \ {"cursor"} :
          LET f == Effective(CleanupSteps, fault, "execute", schema)
              r == cleanup_old_items(store, schema, cleanupNow, "ok", fault)
          IN  /\ store' = r.store
              /\ schema' = r.schema
              \* r.open counts the call's connection, which is in wOpen already
              /\ wOpen' = wOpen - 1 + r.open
              /\ lastCall' = Observed("cleanup_old_items", "ok", f, r)
              /\ wpc' = IF r.raised THEN OnTickError ELSE "sleep"
    /\ UNCHANGED <<nextId, now, avars, evars>>
    /\ UNCHANGED <<iteration, sleeps, slept, initResults, cleanupTicks, cleanupNow>>

\* the clock moves on by a day, or at once by the CLEANUP_DAYS of the
\* retention, which brings the rows stored before to the cut-off
DaysPass ==
    /\ LET days  == (now - StartDay) % CLEANUP_DAYS
           leaps == (now - StartDay) \div CLEANUP_DAYS
       IN  \/ /\ days < MaxDays
              /\ now' = now + 1
           \/ /\ leaps = 0
              /\ now' = now + CLEANUP_DAYS
    /\ UNCHANGED <<store, schema, nextId, wvars, avars, evars>>

----------------------------------------------------------------------------
\* app.py

\* prometheus_client: .labels(l).inc(d) / .observe(): the child of label
\* combination l is created on first use
Inc(m, l, d) ==
    [x \in DOMAIN m \cup {l} |->
        (IF x \in DOMAIN m THEN m[x] ELSE 0) + (IF x = l THEN d ELSE 0)]

Child(m, l) == IF l \in DOMAIN m THEN m[l] ELSE 0

GetSteps     == <<"cursor", "execute", "fetch", "cur_close">>
CreateSteps  == <<"cursor", "execute", "fetch", "commit", "cur_close">>
DeleteSteps  == <<"cursor", "execute", "commit", "cur_close">>
MetricsSteps == <<"cursor", "execute", "fetch", "cur_close">>

\* The bodies of a POST: a JSON object with a name; a JSON value that is
\* falsy or a container without 'name'; no JSON at all (get_json raises
\* BadRequest); a JSON number or true, on which the test 'name' not in data
\* of line 172 raises TypeError
BodyKinds == {"named", "unnamed", "malformed", "scalar"}

\* What a handler hands back: the response, the table and the metrics
\* afterwards, and the connections it opened and did not close.
ApiResult(status, body, st, nid, rc, items, open, executes, commits) ==
    [status |-> status, body |-> body, store |-> st, nextId |-> nid,
     rc |-> rc, items |-> items, open |-> open,
     executes |-> executes, commits |-> commits]

\* app.py health
health(st, nid, rc, items) ==
    ApiResult(200, [status |-> "healthy", service |-> "api-service"],
              st, nid, rc, items, 0, 0, 0)

ready_unchecked(st, nid, rc, items, outcome) ==
    ApiResult(200, [status |-> "ready", database |-> "connected"],
              st, nid, rc, items, 0, 0, 0)

\* app.py ready
ready(st, nid, rc, items, outcome) ==
    LET conn == get_db_connection(outcome)
    IN  IF conn = Raise
        THEN ApiResult(500, [error |-> "Internal Server Error"], st, nid, rc, items, 0, 0, 0)
        ELSE IF conn # Absent
        THEN ApiResult(200, [status |-> "ready", database |-> "connected"],
                       st, nid, rc, items, conn_close(1), 0, 0)
        ELSE ApiResult(503, [status |-> "not ready", database |-> "disconnected"],
                       st, nid, rc, items, 0, 0, 0)

\* the except clause of get_items: it logs and answers, the connection is
\* not touched
get_items_except(open) == open

\* app.py get_items; the rows of the body are given without their order
get_items(st, sch, nid, rc, items, outcome, fault) ==
    LET rc1  == Inc(rc, <<"GET", "/api/items", "success">>, 1)
        conn == get_db_connection(outcome)
        f    == Effective(GetSteps, fault, "execute", sch)
        n    == B2N(Called(GetSteps, f, "execute"))
    IN  IF conn = Raise
        THEN ApiResult(500, [error |-> "Internal Server Error"], st, nid, rc1, items, 0, 0, 0)
        ELSE IF conn = Absent
        THEN ApiResult(503, [error |-> "Database unavailable"], st, nid,
                       Inc(rc1, <<"GET", "/api/items", "error">>, 1), items, 0, 0, 0)
        ELSE IF f = "none"
        THEN ApiResult(200, [items |-> st], st, nid, rc1, items, conn_close(1), n, 0)
        ELSE ApiResult(500, [error |-> "Failed to fetch items"], st, nid, rc1, items,
                       get_items_except(1), n, 0)

\* the except clause of create_item
create_item_except(open) == open

create_item_counts_unavailable(st, sch, nid, t, rc, items, kind, outcome, fault) ==
    LET rc1  == Inc(rc, <<"POST", "/api/items", "success">>, 1)
        rc2  == Inc(rc1, <<"POST", "/api/items", "error">>, 1)
        conn == get_db_connection(outcome)
        f    == Effective(CreateSteps, fault, "execute", sch)
        n    == B2N(Called(CreateSteps, f, "execute"))
        c    == B2N(Called(CreateSteps, f, "commit"))
        nid1 == IF Done(CreateSteps, f, "execute") THEN nid + 1 ELSE nid
        st1  == IF Done(CreateSteps, f, "commit")
                THEN st \cup {[id |-> nid, created_at |-> t]} ELSE st
    IN  IF kind = "malformed"
        THEN ApiResult(400, [error |-> "Bad Request"], st, nid, rc1, items, 0, 0, 0)
        ELSE IF kind = "scalar"
        THEN ApiResult(500, [error |-> "Internal Server Error"], st, nid, rc1, items, 0, 0, 0)
        ELSE IF kind = "unnamed"
        THEN ApiResult(400, [error |-> "Name is required"], st, nid, rc2, items, 0, 0, 0)
        ELSE IF conn = Absent
        THEN ApiResult(503, [error |-> "Database unavailable"], st, nid, rc2, items, 0, 0, 0)
        ELSE IF f = "none"
        THEN ApiResult(201, [id |-> nid, message |-> "Item created successfully"],
                       st1, nid1, rc1, items, conn_close(1), n, c)
        ELSE ApiResult(500, [error |-> "Failed to create item"], st1, nid1, rc1, items,
                       create_item_except(1), n, c)

\* app.py create_item
create_item(st, sch, nid, t, rc, items, kind, outcome, fault) ==
    LET rc1  == Inc(rc, <<"POST", "/api/items", "success">>, 1)
        conn == get_db_connection(outcome)
        f    == Effective(CreateSteps, fault, "execute", sch)
        n    == B2N(Called(CreateSteps, f, "execute"))
        c    == B2N(Called(CreateSteps, f, "commit"))
        nid1 == IF Done(CreateSteps, f, "execute") THEN nid + 1 ELSE nid
        st1  == IF Done(CreateSteps, f, "commit")
                THEN st \cup {[id |-> nid, created_at |-> t]} ELSE st
    IN  IF kind = "malformed"
        THEN ApiResult(400, [error |-> "Bad Request"], st, nid, rc1, items, 0, 0, 0)
        ELSE IF kind = "scalar"
        THEN ApiResult(500, [error |-> "Internal Server Error"], st, nid, rc1, items, 0, 0, 0)
        ELSE IF kind = "unnamed"
        THEN ApiResult(400, [error |-> "Name is required"], st, nid,
                       Inc(rc1, <<"POST", "/api/items", "error">>, 1), items, 0, 0, 0)
        ELSE IF conn = Raise
        THEN ApiResult(500, [error |-> "Internal Server Error"], st, nid, rc1, items, 0, 0, 0)
        ELSE IF conn = Absent
        THEN ApiResult(503, [error |-> "Database unavailable"], st, nid, rc1, items, 0, 0, 0)
        ELSE IF f = "none"
        THEN ApiResult(201, [id |-> nid, message |-> "Item created successfully"],
                       st1, nid1, rc1, items, conn_close(1), n, c)
        ELSE ApiResult(500, [error |-> "Failed to create item"], st1, nid1, rc1, items,
                       create_item_except(1), n, c)

\* the except clause of delete_item
delete_item_except(open) == open

\* app.py delete_item
delete_item(st, sch, nid, rc, items, item_id, outcome, fault) ==
    LET conn == get_db_connection(outcome)
        f    == Effective(DeleteSteps, fault, "execute", sch)
        n    == B2N(Called(DeleteSteps, f, "execute"))
        c    == B2N(Called(DeleteSteps, f, "commit"))
        st1  == IF Done(DeleteSteps, f, "commit")
                THEN {r \in st : r.id # item_id} ELSE st
    IN  IF conn = Raise
        THEN ApiResult(500, [error |-> "Internal Server Error"], st, nid, rc, items, 0, 0, 0)
        ELSE IF conn = Absent
        THEN ApiResult(503, [error |-> "Database unavailable"], st, nid, rc, items, 0, 0, 0)
        ELSE IF f = "none"
        THEN ApiResult(200, [message |-> "Item deleted successfully"],
                       st1, nid, rc, items, conn_close(1), n, c)
        ELSE ApiResult(500, [error |-> "Failed to delete item"], st1, nid, rc, items,
                       delete_item_except(1), n, c)

\* prometheus_client generate_latest over the metrics app.py registers
\* (lines 26-40): one entry per metric family, in the order of registration,
\* with the samples of the children that exist
generate_latest(rc, rd, items) ==
    << [family |-> "api_requests_total", type |-> "counter",
        samples |-> {<<l, rc[l]>> : l \in DOMAIN rc}],
       [family |-> "api_request_duration_seconds", type |-> "histogram",
        samples |-> {<<l, rd[l]>> : l \in DOMAIN rd}],
       [family |-> "api_db_connections_active", type |-> "gauge",
        samples |-> {<< <<>>, 0 >>}],
       [family |-> "api_items_total", type |-> "gauge",
        samples |-> {<< <<>>, items >>}] >>

metrics_except_raise(status) == 500

\* the except clause of metrics: pass, then the response of line 241
metrics_except(status) == status

metrics_gauge_always(done, count, items) == count

\* metrics, lines 233-235: the gauge is set once the count was fetched
metrics_gauge(done, count, items) == IF done THEN count ELSE items

\* app.py metrics
metrics(st, sch, nid, rc, rd, items, outcome, fault) ==
    LET conn == get_db_connection(outcome)
        f    == Effective(MetricsSteps, fault, "execute", sch)
        n    == B2N(Called(MetricsSteps, f, "execute"))
        it1  == metrics_gauge(Done(MetricsSteps, f, "fetch"), Cardinality(st), items)
    IN  IF conn = Raise
        THEN ApiResult(500, [error |-> "Internal Server Error"], st, nid, rc, items, 0, 0, 0)
        ELSE IF conn = Absent
        THEN ApiResult(200, generate_latest(rc, rd, items), st, nid, rc, items, 0, 0, 0)
        ELSE IF f = "none"
        THEN ApiResult(200, generate_latest(rc, rd, it1), st, nid, rc, it1,
                       conn_close(1), n, 0)
        ELSE LET status == metrics_except(200)
             IN  ApiResult(status,
                           IF status = 200 THEN generate_latest(rc, rd, it1)
                           ELSE [error |-> "Internal Server Error"],
                           st, nid, rc, it1, 1, n, 0)

\* The Content-Type of a handler's response: jsonify's for every handler but
\* metrics, which hands out generate_latest() as CONTENT_TYPE_LATEST (line 241)
content_type(handler) ==
    IF handler = "metrics" THEN "text/plain; version=0.0.4; charset=utf-8"
    ELSE "application/json"

\* the decorator track_request_time: one observation, on return and on raise
track_request_time(rd, method, path) == Inc(rd, <<method, path>>, 1)

\* A request thread of the threaded server (line 246: app.run): where it
\* stands in its handler, the counter child it is incrementing, the value it
\* read of it, and the status it will answer
ThreadIds == 1..MaxThreads

IdleThread == [pc |-> "idle", label |-> <<>>, tmp |-> 0, status |-> 0]

NoRequest ==
    [handler |-> "none", outcome |-> "none", fault |-> "none", kind |-> "none",
     at |-> 0, before |-> {}, rcBefore |-> <<>>, itemsBefore |-> 0,
     openBefore |-> 0,
     result |-> ApiResult(0, <<>>, {}, 0, <<>>, 0, 0, 0, 0)]

ApiInit ==
    /\ REQUEST_COUNT = <<>>
    /\ REQUEST_DURATION = <<>>
    /\ ITEMS_TOTAL = 0
    /\ apiOpen = 0
    /\ requests = 0
    /\ lastResp = NoRequest
    /\ threads = [t \in ThreadIds |-> IdleThread]
    /\ lockOf = <<>>

\* Effect of one answered request
Answered(handler, outcome, fault, kind, r) ==
    /\ requests < MaxRequests
    /\ requests' = requests + 1
    /\ store' = r.store
    /\ nextId' = r.nextId
    /\ REQUEST_COUNT' = r.rc
    /\ ITEMS_TOTAL' = r.items
    /\ apiOpen' = apiOpen + r.open
    /\ lastResp' = [handler |-> handler, outcome |-> outcome, fault |-> fault,
                    kind |-> kind, at |-> now, before |-> store,
                    rcBefore |-> REQUEST_COUNT, itemsBefore |-> ITEMS_TOTAL,
                    openBefore |-> apiOpen, result |-> r]
    /\ UNCHANGED <<schema, now, wvars, evars, tvars>>

\* GET /health
Health ==
    /\ Answered("health", "none", "none", "none",
                health(store, nextId, REQUEST_COUNT, ITEMS_TOTAL))
    /\ UNCHANGED REQUEST_DURATION

\* GET /ready
Ready ==
    /\ \E o \in ConnectOutcomes :
          Answered("ready", o, "none", "none",
                   ready(store, nextId, REQUEST_COUNT, ITEMS_TOTAL, o))
    /\ UNCHANGED REQUEST_DURATION

\* GET /api/items
GetItems ==
    /\ \E c \in Calls(GetSteps) :
          Answered("get_items", c.outcome,
                   Effective(GetSteps, c.fault, "execute", schema), "none",
                   get_items(store, schema, nextId, REQUEST_COUNT, ITEMS_TOTAL,
                             c.outcome, c.fault))
    /\ REQUEST_DURATION' = track_request_time(REQUEST_DURATION, "GET", "/api/items")

\* POST /api/items
CreateItem ==
    /\ \E k \in BodyKinds, c \in Calls(CreateSteps) :
          /\ k # "named" => c = [outcome |-> "refused", fault |-> "none"]
          /\ Answered("create_item", c.outcome,
                      Effective(CreateSteps, c.fault, "execute", schema), k,
                      create_item(store, schema, nextId, now, REQUEST_COUNT,
                                  ITEMS_TOTAL, k, c.outcome, c.fault))
    /\ REQUEST_DURATION' = track_request_time(REQUEST_DURATION, "POST", "/api/items")

\* DELETE /api/items/<item_id>, for the id of a row or for an id no row has
DeleteItem ==
    /\ \E i \in {r.id : r \in store} \cup {nextId}, c \in Calls(DeleteSteps) :
          Answered("delete_item", c.outcome,
                   Effective(DeleteSteps, c.fault, "execute", schema), "none",
                   delete_item(store, schema, nextId, REQUEST_COUNT, ITEMS_TOTAL,
                               i, c.outcome, c.fault))
    /\ UNCHANGED REQUEST_DURATION

\* GET /metrics
Metrics ==
    /\ \E c \in Calls(MetricsSteps) :
          Answered("metrics", c.outcome,
                   Effective(MetricsSteps, c.fault, "execute", schema), "none",
                   metrics(store, schema, nextId, REQUEST_COUNT, REQUEST_DURATION,
                           ITEMS_TOTAL, c.outcome, c.fault))
    /\ UNCHANGED REQUEST_DURATION

\* A connection object a handler left open and unreferenced may be
\* finalised by the runtime at any later time, or never
Reclaim ==
    /\ apiOpen > 0
    /\ apiOpen' = apiOpen - 1
    /\ UNCHANGED <<dbvars, wvars, evars, REQUEST_COUNT, REQUEST_DURATION,
                   ITEMS_TOTAL, requests, lastResp, tvars>>

ApiNext ==
    \/ Reclaim
    \/ Health
    \/ Ready
    \/ GetItems
    \/ CreateItem
    \/ DeleteItem
    \/ Metrics

----------------------------------------------------------------------------
\* policy-metrics-exporter.py

\* prometheus_client: Gauge child .set(v)
Set(m, l, v) == [x \in DOMAIN m \cup {l} |-> IF x = l THEN v ELSE m[x]]

ConstraintNames == {"require-app-label", "require-owner-label"}
SystemNamespaces == {"kube-system", "gatekeeper-system", "monitoring"}

\* What list_cluster_custom_object returns: for each constraint, by name,
\* the number of entries of its status.violations
Listings ==
    UNION {[N -> 0..MaxViolations] : N \in SUBSET ConstraintNames}

\* What list_pod_for_all_namespaces returns: one pod without an app label
\* in each system namespace, one labelled application pod, and n application
\* pods without the label
PodsWith(n) ==
    {[name |-> <<ns, 0>>, namespace |-> ns, app |-> FALSE] : ns \in SystemNamespaces}
        \cup {[name |-> <<"dev", 0>>, namespace |-> "dev", app |-> TRUE]}
        \cup {[name |-> <<"dev", i>>, namespace |-> "dev", app |-> FALSE] : i \in 1..n}

PodLists == {PodsWith(n) : n \in 0..MaxPods}

ExportSteps_pods_first == <<"clients", "list_pods", "list_constraints">>

\* lines 28-29, 34-38 and 60: the calls of the try block that can raise
ExportSteps == <<"clients", "list_constraints", "list_pods">>

constraint_increment_one(n) == 1

constraint_increment_negated(n) == 0 - n

\* lines 48-53: the counter goes up by len(violations)
constraint_increment(n) == n

RECURSIVE count_constraints(_, _, _)
\* lines 41-54: the loop over the constraints, counter part
count_constraints(pv, cs, todo) ==
    IF todo = {} THEN pv
    ELSE LET name == CHOOSE x \in todo : TRUE
             pv1  == IF cs[name] > 0
                     THEN Inc(pv, <<name, "warning">>, constraint_increment(cs[name]))
                     ELSE pv
         IN  count_constraints(pv1, cs, todo \ {name})

time_constraints_none(pvd, todo) == pvd

RECURSIVE time_constraints(_, _)
\* lines 41-57: the loop over the constraints, gauge part
time_constraints(pvd, todo) ==
    IF todo = {} THEN pvd
    ELSE LET name == CHOOSE x \in todo : TRUE
         IN  time_constraints(Set(pvd, <<name>>, "0.05"), todo \ {name})

pods_without_app_label_all(pods) ==
    Cardinality({p \in pods : ~p.app})

\* lines 61-70
pods_without_app_label(pods) ==
    Cardinality({p \in pods : p.namespace \notin SystemNamespaces /\ ~p.app})

ExportResult(raised, pv, pvd, vc, db, vss) ==
    [raised |-> raised, pv |-> pv, pvd |-> pvd, vc |-> vc, db |-> db, vss |-> vss]

\* collect_gatekeeper_violations
collect_gatekeeper_violations(pv, pvd, vc, db, vss, cfg, fault, cs, pods) ==
    LET listed  == Done(ExportSteps, fault, "list_constraints")
        scanned == Done(ExportSteps, fault, "list_pods")
        n       == pods_without_app_label(pods)
        pv1     == IF listed THEN count_constraints(pv, cs, DOMAIN cs) ELSE pv
        pvd1    == IF listed THEN time_constraints(pvd, DOMAIN cs) ELSE pvd
        pv2     == IF scanned /\ n > 0
                   THEN Inc(pv1, <<"require-app-label", "warning">>, n) ELSE pv1
        vc1     == IF scanned
                   THEN Set(Set(Set(vc, <<"critical">>, 0), <<"high">>, 2), <<"medium">>, 5)
                   ELSE vc
        db1     == IF scanned /\ n > 0
                   THEN Inc(db, <<"missing-required-labels">>, 1) ELSE db
        vss1    == IF scanned
                   THEN Set(Set(vss, <<"api-service">>, 1), <<"worker-service">>, 1)
                   ELSE vss
    IN  IF cfg = "none" \/ fault = "clients"
        THEN ExportResult(TRUE, pv, pvd, vc, db, vss)
        ELSE ExportResult(FALSE, pv2, pvd1, vc1, db1, vss1)

\* The ways one tick can go, with what it got to read of the cluster
ExportCalls ==
    {[cfg |-> "none", fault |-> "none", cs |-> <<>>, pods |-> {}]}
      \cup {[cfg |-> c, fault |-> f, cs |-> <<>>, pods |-> {}] :
               c \in {"incluster", "kubeconfig"}, f \in {"clients", "list_constraints"}}
      \cup {[cfg |-> c, fault |-> "list_pods", cs |-> l, pods |-> {}] :
               c \in {"incluster", "kubeconfig"}, l \in Listings}
      \cup {[cfg |-> c, fault |-> "none", cs |-> l, pods |-> ps] :
               c \in {"incluster", "kubeconfig"}, l \in Listings, ps \in PodLists}

NoCollect ==
    [configured |-> FALSE, fault |-> "none", cs |-> <<>>, pods |-> {},
     raised |-> FALSE,
     before |-> ExportResult(FALSE, <<>>, <<>>, <<>>, <<>>, <<>>)]

ExporterInit ==
    /\ epc = "collect"
    /\ POLICY_VIOLATIONS = <<>>
    /\ POLICY_VALIDATION_DURATION = <<>>
    /\ VULNERABILITY_COUNT = <<>>
    /\ DEPLOYMENT_BLOCKED = <<>>
    /\ VULNERABILITY_SCAN_STATUS = <<>>
    /\ eticks = 0
    /\ lastCollect = NoCollect

\* main, line 101: an exception leaving the call leaves main too
Collect ==
    /\ epc = "collect"
    /\ eticks < MaxExpTicks
    /\ \E c \in ExportCalls :
          LET r == collect_gatekeeper_violations(
                      POLICY_VIOLATIONS, POLICY_VALIDATION_DURATION,
                      VULNERABILITY_COUNT, DEPLOYMENT_BLOCKED,
                      VULNERABILITY_SCAN_STATUS, c.cfg, c.fault, c.cs, c.pods)
          IN  /\ POLICY_VIOLATIONS' = r.pv
              /\ POLICY_VALIDATION_DURATION' = r.pvd
              /\ VULNERABILITY_COUNT' = r.vc
              /\ DEPLOYMENT_BLOCKED' = r.db
              /\ VULNERABILITY_SCAN_STATUS' = r.vss
              /\ lastCollect' =
                    [configured |-> c.cfg # "none", fault |-> c.fault,
                     cs |-> c.cs, pods |-> c.pods,
                     raised |-> r.raised,
                     before |-> ExportResult(FALSE, POLICY_VIOLATIONS,
                                    POLICY_VALIDATION_DURATION, VULNERABILITY_COUNT,
                                    DEPLOYMENT_BLOCKED, VULNERABILITY_SCAN_STATUS)]
              /\ epc' = IF r.raised THEN "crashed" ELSE "sleep"
    /\ eticks' = eticks + 1
    /\ UNCHANGED <<dbvars, wvars, avars>>

\* main, line 102; the observation of the call that returned is dropped
ExporterSleep ==
    /\ epc = "sleep"
    /\ epc' = "collect"
    /\ lastCollect' = NoCollect
    /\ UNCHANGED <<dbvars, wvars, avars, emetrics, eticks>>

ExporterNext == Collect \/ ExporterSleep

----------------------------------------------------------------------------
\* app.py, GET /api/items handled by threads that run side by side

SuccessLabel == <<"GET", "/api/items", "success">>
ErrorLabel   == <<"GET", "/api/items", "error">>

At(t, pc) == threads[t].pc = pc

Goto(t, pc, label, tmp, status) ==
    threads' = [threads EXCEPT ![t] =
                    [pc |-> pc, label |-> label, tmp |-> tmp, status |-> status]]

get_items_begin_connect == "connect"

\* get_items, line 119: the handler starts by incrementing the success child
get_items_begin == "lock"

\* Counter.inc holds the lock of the child's value while it adds: a thread
\* gets the lock when no thread holds it
lock_free(holder) == holder = 0

\* a request comes in and gets its thread
Arrive(t) ==
    /\ At(t, "idle")
    /\ Goto(t, get_items_begin, SuccessLabel, 0, 0)
    /\ UNCHANGED <<dbvars, wvars, evars, REQUEST_COUNT, REQUEST_DURATION,
                   ITEMS_TOTAL, apiOpen, requests, lastResp, lockOf>>

\* .inc(), lines 119-123 and 127-131: take the lock of the child
IncLock(t) ==
    /\ At(t, "lock")
    /\ lock_free(Child(lockOf, threads[t].label))
    /\ lockOf' = Set(lockOf, threads[t].label, t)
    /\ Goto(t, "read", threads[t].label, 0, threads[t].status)
    /\ UNCHANGED <<dbvars, wvars, evars, REQUEST_COUNT, REQUEST_DURATION,
                   ITEMS_TOTAL, apiOpen, requests, lastResp>>

\* .inc(): read the value of the child
IncRead(t) ==
    /\ At(t, "read")
    /\ Goto(t, "write", threads[t].label,
            Child(REQUEST_COUNT, threads[t].label), threads[t].status)
    /\ UNCHANGED <<dbvars, wvars, evars, REQUEST_COUNT, REQUEST_DURATION,
                   ITEMS_TOTAL, apiOpen, requests, lastResp, lockOf>>

\* .inc(): write the value read, plus 1
IncWrite(t) ==
    /\ At(t, "write")
    /\ REQUEST_COUNT' = Set(REQUEST_COUNT, threads[t].label, threads[t].tmp + 1)
    /\ Goto(t, "unlock", threads[t].label, 0, threads[t].status)
    /\ UNCHANGED <<dbvars, wvars, evars, REQUEST_DURATION,
                   ITEMS_TOTAL, apiOpen, requests, lastResp, lockOf>>

\* .inc(): release the lock; after the success child comes the connect of
\* line 125, after the error child the return of line 132
IncUnlock(t) ==
    /\ At(t, "unlock")
    /\ lockOf' = Set(lockOf, threads[t].label, 0)
    /\ Goto(t, IF threads[t].label = SuccessLabel THEN "connect" ELSE "respond",
            threads[t].label, 0, threads[t].status)
    /\ UNCHANGED <<dbvars, wvars, evars, REQUEST_COUNT, REQUEST_DURATION,
                   ITEMS_TOTAL, apiOpen, requests, lastResp>>

\* get_items, lines 125-157: the connect and, with a connection, the query
Query(t) ==
    /\ At(t, "connect")
    /\ \E c \in Calls(GetSteps) :
          LET r == get_items(store, schema, nextId, REQUEST_COUNT, ITEMS_TOTAL,
                             c.outcome, c.fault)
          IN  /\ apiOpen' = apiOpen + r.open
              /\ IF get_db_connection(c.outcome) = Absent
                 THEN Goto(t, "lock", ErrorLabel, 0, r.status)
                 ELSE Goto(t, "respond", threads[t].label, 0, r.status)
    /\ UNCHANGED <<dbvars, wvars, evars, REQUEST_COUNT, REQUEST_DURATION,
                   ITEMS_TOTAL, requests, lastResp, lockOf>>

\* the response leaves, through the decorator track_request_time
Respond(t) ==
    /\ At(t, "respond")
    /\ REQUEST_DURATION' = track_request_time(REQUEST_DURATION, "GET", "/api/items")
    /\ Goto(t, "done", threads[t].label, 0, threads[t].status)
    /\ UNCHANGED <<dbvars, wvars, evars, REQUEST_COUNT,
                   ITEMS_TOTAL, apiOpen, requests, lastResp, lockOf>>

\* GET /metrics, asked for by the Prometheus server at every scrape interval:
\* the periodic reader of the registry, which comes round between the steps
\* of the threads; its effect on the registry and the connections
Scrape ==
    /\ requests < MaxRequests
    /\ \E c \in Calls(MetricsSteps) :
          LET r == metrics(store, schema, nextId, REQUEST_COUNT, REQUEST_DURATION,
                           ITEMS_TOTAL, c.outcome, c.fault)
          IN  /\ ITEMS_TOTAL' = r.items
              /\ apiOpen' = apiOpen + r.open
    /\ requests' = requests + 1
    /\ UNCHANGED <<dbvars, wvars, evars, REQUEST_COUNT, REQUEST_DURATION,
                   lastResp, tvars>>

ThreadedNext ==
    \/ \E t \in ThreadIds : Arrive(t)
    \/ \E t \in ThreadIds : IncLock(t)
    \/ \E t \in ThreadIds : IncRead(t)
    \/ \E t \in ThreadIds : IncWrite(t)
    \/ \E t \in ThreadIds : IncUnlock(t)
    \/ \E t \in ThreadIds : Query(t)
    \/ \E t \in ThreadIds : Respond(t)
    \/ Scrape

Init == DbInit /\ WorkerInit /\ ApiInit /\ ExporterInit

WorkerStep == WorkerNext \/ ClockAdvance

\* the worker alone against the database
WorkerSpec == Init /\ [][WorkerStep]_vars

\* the API service alone against the database, which has no table or a
\* table with rows that the requests add to and delete from (each request
\* reads the clock at most once, so the clock stands still here)
ApiStart == Init /\ (schema => store = InitRows)

ApiSpec == ApiStart /\ [][ApiNext]_vars

\* the exporter alone against the cluster (it has no part in the database,
\* which is left without its table here)
ExporterStart == Init /\ ~schema

ExporterSpec == ExporterStart /\ [][ExporterNext]_vars

\* The API service and the exporter side by side, each with the registry of
\* its process: the requests whose handlers call a counter (lines 119-131
\* and 164-177 of app.py) and the ticks of the exporter, in any order. A
\* request updates one counter, REQUEST_COUNT; a tick two, POLICY_VIOLATIONS
\* and DEPLOYMENT_BLOCKED.
RegistryNext ==
    \/ requests + 1 + 2 * eticks <= MaxMixed /\ GetItems
    \/ requests + 1 + 2 * eticks <= MaxMixed /\ CreateItem
    \/ requests + 2 * (eticks + 1) <= MaxMixed /\ Collect
    \/ ExporterSleep

RegistrySpec == ExporterStart /\ [][RegistryNext]_vars

\* the API service with its request threads running side by side, against
\* a table that holds rows
ThreadedStart == Init /\ schema /\ store = InitRows

ThreadedSpec == ThreadedStart /\ [][ThreadedNext]_vars

\* the worker process, scheduled whenever it can take a step (the clock
\* stands still: the loop's control flow does not read it)
WorkerFairSpec == Init /\ [][WorkerNext]_vars /\ WF_vars(WorkerNext)

\* POST /api/items as the worker's database sees it: the effect of the
\* request on the table, the sequence, the registry and the connections
Post ==
    /\ requests < MaxWrites
    /\ \E k \in BodyKinds, c \in Calls(CreateSteps) :
          /\ k # "named" => c = [outcome |-> "refused", fault |-> "none"]
          /\ LET r == create_item(store, schema, nextId, now, REQUEST_COUNT,
                                  ITEMS_TOTAL, k, c.outcome, c.fault)
             IN  /\ store' = r.store
                 /\ nextId' = r.nextId
                 /\ REQUEST_COUNT' = r.rc
                 /\ apiOpen' = apiOpen + r.open
    /\ REQUEST_DURATION' = track_request_time(REQUEST_DURATION, "POST", "/api/items")
    /\ requests' = requests + 1
    /\ UNCHANGED <<schema, now, wvars, evars, ITEMS_TOTAL, lastResp, tvars>>

\* DELETE /api/items/<item_id> likewise, for the id of a row or for an id
\* no row has
Delete ==
    /\ requests < MaxWrites
    /\ \E i \in {r.id : r \in store} \cup {nextId}, c \in Calls(DeleteSteps) :
          LET r == delete_item(store, schema, nextId, REQUEST_COUNT, ITEMS_TOTAL,
                               i, c.outcome, c.fault)
          IN  /\ store' = r.store
              /\ apiOpen' = apiOpen + r.open
    /\ requests' = requests + 1
    /\ UNCHANGED <<schema, nextId, now, wvars, evars, REQUEST_COUNT, REQUEST_DURATION,
                   ITEMS_TOTAL, lastResp, tvars>>

\* The cleanup of the worker's tenth tick, the first tick that cleans up,
\* with POST and DELETE requests of the API service arriving before, during
\* and after it, and the clock moving on. The worker has created the table
\* (line 137), has been round its loop nine times and has just returned from
\* process_pending_tasks (line 150); no row has been stored so far.
TenthTickStart ==
    /\ DbInit /\ schema /\ store = {}
    /\ ApiInit
    /\ ExporterInit
    /\ wpc = "check"
    /\ iteration = CLEANUP_EVERY
    /\ sleeps = CLEANUP_EVERY - 1
    /\ slept = [i \in 1..(CLEANUP_EVERY - 1) |-> WORKER_INTERVAL]
    /\ initResults = <<TRUE>>
    /\ cleanupTicks = {}
    /\ wOpen = 0
    /\ lastCall = Observed("process_pending_tasks", "ok", "none",
                           process_pending_tasks(store, schema, "ok", "none"))
    /\ cleanupNow = 0

SharedTableNext ==
    \/ CleanupBegin
    \/ CleanupDelete
    \/ Post
    \/ Delete
    \/ DaysPass

SharedTableSpec == TenthTickStart /\ [][SharedTableNext]_vars

----------------------------------------------------------------------------
\* Properties of the worker

InitPcs == {"start", "backoff", "retry"}
TickPcs == {"pending", "check", "sleep"}
LoopPcs == TickPcs \cup {"loop"}

Age(row, t) == t - row.created_at

Count(seq, x) == Cardinality({i \in 1..Len(seq) : seq[i] = x})

TaskFailed(call) == call.outcome = "refused" \/ call.fault # "none"

\* C1: the worker loop never exits: every tick, failed or not, is followed by
\* one sleep of WORKER_INTERVAL and that sleep by the next tick, so one sleep
\* lies between two consecutive ticks and the ticks never stop coming (here:
\* for every tick below the explored number of ticks the next one begins).
WorkerLoopNeverExits ==
    /\ [](wpc \notin {"exited", "crashed"})
    /\ [][/\ wpc \in {"pending", "check"} => wpc' \in {"pending", "check", "sleep"}
          /\ wpc = "sleep" => wpc' \in {"sleep", "loop"}
          /\ wpc = "loop" => wpc' \in {"loop", "pending"}
          /\ wpc = "sleep" /\ wpc' = "loop" =>
                /\ slept' = Append(slept, WORKER_INTERVAL)
                /\ sleeps' = sleeps + 1
          /\ wpc = "loop" /\ wpc' = "pending" =>
                /\ iteration' = iteration + 1
                /\ sleeps' = sleeps]_vars
    /\ [](wpc \in LoopPcs => sleeps = iteration - B2N(wpc \in TickPcs))
    /\ (wpc \in TickPcs) ~> (wpc = "loop")
    /\ (wpc = "loop" /\ iteration < MaxIter) ~> (wpc = "pending")

\* C1 witness: a tick whose task failed has been slept off and the next tick
\* has begun.
WorkerLoopNeverExits_witness ==
    /\ wpc = "pending"
    /\ iteration >= 2
    /\ lastCall.task = "process_pending_tasks"
    /\ TaskFailed(lastCall)
    /\ slept[Len(slept)] = WORKER_INTERVAL
    /\ sleeps = iteration - 1

\* C2: iteration starts at 0 and goes up by one at the start of every tick;
\* cleanup_old_items is called on tick n exactly when n is a multiple of 10,
\* so after ten ticks it has been called once, on the tenth.
CleanupEveryTenthTick ==
    /\ wpc \in InitPcs => iteration = 0 /\ sleeps = 0
    /\ wpc \in LoopPcs => iteration = sleeps + B2N(wpc \in TickPcs)
    /\ cleanupTicks =
          {n \in 1..iteration :
              /\ n % 10 = 0
              /\ n < iteration \/ wpc \in {"sleep", "loop"}}
    /\ (iteration = 10 /\ wpc \in {"sleep", "loop"}) => cleanupTicks = {10}

CleanupEveryTenthTick_witness ==
    /\ iteration = 10
    /\ wpc = "sleep"
    /\ cleanupTicks = {10}
    /\ lastCall.task = "cleanup_old_items"

\* C4: a cleanup_old_items run that succeeds at time now removes exactly the
\* rows created strictly before now - CLEANUP_DAYS: a row aged exactly
\* CLEANUP_DAYS days, or younger, stays.
CleanupRemovesStrictlyOlder ==
    (/\ lastCall.task = "cleanup_old_items"
     /\ lastCall.outcome = "ok"
     /\ lastCall.fault = "none")
    => /\ lastCall.result.store =
              {r \in lastCall.before : Age(r, lastCall.at) <= 30}
       /\ lastCall.before \ lastCall.result.store =
              {r \in lastCall.before : Age(r, lastCall.at) > 30}
       /\ store = lastCall.result.store

\* C4 witness: rows aged 29, 30 and 31 days were there, the one aged 31 went.
CleanupRemovesStrictlyOlder_witness ==
    /\ lastCall.task = "cleanup_old_items"
    /\ lastCall.outcome = "ok"
    /\ lastCall.fault = "none"
    /\ {Age(r, lastCall.at) : r \in lastCall.before} = {29, 30, 31}
    /\ {Age(r, lastCall.at) : r \in store} = {29, 30}

\* C5: get_db_connection never raises, a failed connect gives None; with
\* None, cleanup_old_items and process_pending_tasks return without raising,
\* execute no statement and leave the table as it was.
AbsentConnectionIsTolerated ==
    /\ \A o \in ConnectOutcomes :
          /\ get_db_connection(o) # Raise
          /\ o = "refused" => get_db_connection(o) = Absent
    /\ (/\ lastCall.task \in {"cleanup_old_items", "process_pending_tasks"}
        /\ lastCall.outcome = "refused")
       => /\ ~lastCall.result.raised
          /\ lastCall.result.executes = 0
          /\ lastCall.result.commits = 0
          /\ lastCall.result.store = lastCall.before
          /\ store = lastCall.before
          /\ schema = lastCall.schemaBefore

\* C5 witness: cleanup ran without a connection while a stale row was there.
AbsentConnectionIsTolerated_witness ==
    /\ lastCall.task = "cleanup_old_items"
    /\ lastCall.outcome = "refused"
    /\ \E r \in store : Age(r, lastCall.at) > 30
    /\ wpc = "sleep"

\* C6: no worker task returns with the connection it opened still open, on
\* any path, the ones where a statement, the fetch or the commit raises
\* included.
WorkerTasksCloseConnection ==
    /\ wOpen = 0
    /\ lastCall.result.open = 0

\* C6 witness: the commit of cleanup_old_items raised.
WorkerTasksCloseConnection_witness ==
    /\ lastCall.task = "cleanup_old_items"
    /\ lastCall.outcome = "ok"
    /\ lastCall.fault = "commit"
    /\ wOpen = 0

\* C8: initialize_database is tried once on start, a second time exactly
\* when the first try failed and after one sleep of 10 seconds, never a
\* third time; after the retry, failed or not, the loop starts.
InitRetriedOnce ==
    /\ wpc \notin {"crashed", "exited"}
    /\ Len(initResults) <= 2
    /\ Count(slept, 10) <= 1
    /\ wpc = "start" => initResults = <<>>
    /\ wpc = "backoff" => initResults = <<FALSE>> /\ slept = <<>>
    /\ wpc = "retry" => initResults = <<FALSE>> /\ slept = <<10>>
    /\ wpc \in LoopPcs =>
          \/ initResults = <<TRUE>> /\ Count(slept, 10) = 0
          \/ /\ Len(initResults) = 2
             /\ ~initResults[1]
             /\ slept[1] = 10
    /\ (wpc = "loop" /\ iteration = 0) => ENABLED TickBegin

\* C8 witness: both attempts failed and the first tick is under way.
InitRetriedOnce_witness ==
    /\ initResults = <<FALSE, FALSE>>
    /\ wpc = "pending"
    /\ iteration = 1

\* C15: a cleanup_old_items run that gets a connection and meets no error
\* issues exactly one statement, the DELETE, and exactly one commit, whatever
\* the number of stale rows.
CleanupIssuesOneStatementOneCommit ==
    (/\ lastCall.task = "cleanup_old_items"
     /\ lastCall.outcome = "ok"
     /\ lastCall.fault = "none")
    => /\ lastCall.result.executes = 1
       /\ lastCall.result.commits = 1
       /\ ~lastCall.result.raised

\* C15 witness: one run removed two stale rows with its one statement.
CleanupIssuesOneStatementOneCommit_witness ==
    /\ lastCall.task = "cleanup_old_items"
    /\ lastCall.outcome = "ok"
    /\ lastCall.fault = "none"
    /\ Cardinality(lastCall.before \ store) = 2
    /\ lastCall.result.executes = 1
    /\ lastCall.result.commits = 1

----------------------------------------------------------------------------
\* Properties of the API service

\* C7: no request handler returns its response with the connection it
\* opened still open, on any path, the ones answered 500 included; after any
\* sequence of requests no connection is open.
ApiHandlersCloseConnection ==
    /\ lastResp.result.open = 0
    /\ apiOpen = 0

\* C9: GET /metrics answers 200 with a non-empty serialization of the
\* registry in every case: without a connection, and with a connection on
\* which the COUNT query or the fetch raises.
MetricsAlwaysAnswers200 ==
    lastResp.handler = "metrics"
    => /\ lastResp.result.status = 200
       /\ lastResp.result.body =
             generate_latest(REQUEST_COUNT, REQUEST_DURATION, ITEMS_TOTAL)
       /\ Len(lastResp.result.body) > 0
       /\ \E i \in 1..Len(lastResp.result.body) :
             lastResp.result.body[i].samples # {}

\* C9 witness: the connection opened and the query raised, after a request
\* that left a counter child behind.
MetricsAlwaysAnswers200_witness ==
    /\ lastResp.handler = "metrics"
    /\ lastResp.outcome = "ok"
    /\ lastResp.fault \in {"execute", "fetch"}
    /\ lastResp.result.status = 200
    /\ DOMAIN REQUEST_COUNT # {}

\* C16: GET /ready answers 200 with status 'ready' exactly when
\* get_db_connection gave a connection and 503 with status 'not ready'
\* exactly when it gave None; it runs no statement and leaves the table as
\* it was.
ReadyReflectsConnection ==
    lastResp.handler = "ready"
    => LET r == lastResp.result
       IN  /\ get_db_connection(lastResp.outcome) # Absent
                <=> (r.status = 200 /\ r.body.status = "ready")
           /\ get_db_connection(lastResp.outcome) = Absent
                <=> (r.status = 503 /\ r.body.status = "not ready")
           /\ r.status \in {200, 503}
           /\ r.executes = 0
           /\ r.commits = 0
           /\ r.store = lastResp.before
           /\ store = lastResp.before

\* C16 witness: the probe found no connection while rows were in the table.
ReadyReflectsConnection_witness ==
    /\ lastResp.handler = "ready"
    /\ lastResp.outcome = "refused"
    /\ lastResp.result.status = 503
    /\ lastResp.result.body.status = "not ready"
    /\ store # {}
    /\ store = lastResp.before

\* C17: GET /metrics with no database reachable answers 200 with a JSON body
\* whose field 'service' is 'api-service'.
MetricsAnswersServiceJson ==
    (lastResp.handler = "metrics" /\ lastResp.outcome = "refused")
    => /\ lastResp.result.status = 200
       /\ content_type(lastResp.handler) = "application/json"
       /\ lastResp.result.body.service = "api-service"

\* C18: GET /metrics leaves api_items_total at its value when no connection
\* is had or the COUNT query (the execute or the fetch of its result) fails;
\* when the connection and the query succeed the gauge is the number of rows
\* read.
MetricsGaugeFollowsQuery ==
    lastResp.handler = "metrics"
    => /\ ITEMS_TOTAL = lastResp.result.items
       /\ (\/ lastResp.outcome = "refused"
           \/ lastResp.fault \in {"cursor", "execute", "fetch"})
          => ITEMS_TOTAL = lastResp.itemsBefore
       /\ (lastResp.outcome = "ok" /\ lastResp.fault \in {"none", "cur_close"})
          => ITEMS_TOTAL = Cardinality(lastResp.before)

\* C18 witness: the fetch failed with two rows in the table and the gauge at
\* 0: it is still at 0.
MetricsGaugeFollowsQuery_witness ==
    /\ lastResp.handler = "metrics"
    /\ lastResp.outcome = "ok"
    /\ lastResp.fault = "fetch"
    /\ Cardinality(store) = 2
    /\ lastResp.itemsBefore = 0
    /\ ITEMS_TOTAL = 0

Finished == {t \in ThreadIds : At(t, "done")}

\* the threads whose increment of the success child is written
Counted ==
    {t \in ThreadIds :
        /\ ~At(t, "idle")
        /\ ~(threads[t].label = SuccessLabel
               /\ threads[t].pc \in {"lock", "read", "write"})}

\* C13: with request threads running side by side, and the scrape of
\* /metrics between their steps, no increment is lost: the success child of
\* GET /api/items stands at the number of threads that have written their
\* increment, so once n requests have completed and none is under way it is
\* up by exactly n.
NoIncrementLost ==
    /\ Child(REQUEST_COUNT, SuccessLabel) = Cardinality(Counted)
    /\ Cardinality(Finished) <= Child(REQUEST_COUNT, SuccessLabel)
    /\ (\A t \in ThreadIds : At(t, "idle") \/ At(t, "done"))
          => Child(REQUEST_COUNT, SuccessLabel) = Cardinality(Finished)

\* C13 witness: every thread has completed its request, one of them without
\* a connection and one with its rows, scrapes have come by, and the child
\* stands at the number of requests.
NoIncrementLost_witness ==
    /\ \A t \in ThreadIds : At(t, "done")
    /\ Cardinality(Finished) >= 2
    /\ \E t \in ThreadIds : threads[t].status = 503
    /\ \E t \in ThreadIds : threads[t].status = 200
    /\ requests >= 2
    /\ ITEMS_TOTAL = Cardinality(store)
    /\ Child(REQUEST_COUNT, SuccessLabel) = Cardinality(Finished)
    /\ Child(REQUEST_COUNT, ErrorLabel) = 1

----------------------------------------------------------------------------
\* Properties of the exporter

Returned == epc \in {"sleep", "crashed"} /\ eticks > 0
Succeeded == Returned /\ lastCollect.configured /\ lastCollect.fault = "none"

Delta(after, before, l) == Child(after, l) - Child(before, l)

Unlabelled(pods) ==
    Cardinality({p \in pods : p.namespace \notin SystemNamespaces /\ ~p.app})

\* C3: an error during a tick of the exporter (loading the configuration,
\* constructing the clients, listing constraints or pods) is caught inside
\* collect_gatekeeper_violations and never reaches main's loop.
ExporterTickNeverPropagates ==
    /\ ~lastCollect.raised
    /\ epc # "crashed"

RECURSIVE TotalDelta(_, _, _)
TotalDelta(after, before, labels) ==
    IF labels = {} THEN 0
    ELSE LET l == CHOOSE x \in labels : TRUE
         IN  Delta(after, before, l) + TotalDelta(after, before, labels \ {l})

\* C10 as claimed: in a successful tick the counter child of every listed
\* constraint goes up by exactly the number of its violation entries; with
\* one constraint holding 3 entries and another none, the counter goes up by
\* 3 in all, on the first one's child.
ConstraintCounterExact ==
    Succeeded
    => LET cs == lastCollect.cs
           before == lastCollect.before.pv
       IN  /\ \A n \in DOMAIN cs :
                Delta(POLICY_VIOLATIONS, before, <<n, "warning">>) = cs[n]
           /\ \A a \in DOMAIN cs, b \in DOMAIN cs :
                (cs[a] = 3 /\ cs[b] = 0)
                   => /\ Delta(POLICY_VIOLATIONS, before, <<a, "warning">>) = 3
                      /\ TotalDelta(POLICY_VIOLATIONS, before,
                                    DOMAIN POLICY_VIOLATIONS) = 3

\* C10 amended: in a successful tick the counter child of every listed
\* constraint goes up by exactly the number of its violation entries, plus,
\* for the child policy='require-app-label' alone, the number of pods outside
\* the system namespaces without an app label that the same tick's pod scan
\* found; no other child moves, and a child that gets nothing is not created.
ConstraintCounterExactButPodScan ==
    Succeeded
    => LET cs == lastCollect.cs
           before == lastCollect.before.pv
           Scan(l) == IF l = <<"require-app-label", "warning">>
                      THEN Unlabelled(lastCollect.pods) ELSE 0
           Listed(l) == IF l[2] = "warning" /\ l[1] \in DOMAIN cs
                        THEN cs[l[1]] ELSE 0
           labels == DOMAIN POLICY_VIOLATIONS
                        \cup {<<n, "warning">> : n \in ConstraintNames}
       IN  /\ \A l \in labels :
                Delta(POLICY_VIOLATIONS, before, l) = Listed(l) + Scan(l)
           /\ \A l \in labels :
                (l \notin DOMAIN before /\ Listed(l) + Scan(l) = 0)
                   => l \notin DOMAIN POLICY_VIOLATIONS
           /\ DOMAIN before \subseteq DOMAIN POLICY_VIOLATIONS

\* C10 witness: a constraint with 3 violations and one with none, on top of
\* counts of an earlier tick, in a tick whose pod scan found a pod.
ConstraintCounterExactButPodScan_witness ==
    /\ Succeeded
    /\ eticks = 2
    /\ DOMAIN lastCollect.cs = ConstraintNames
    /\ lastCollect.cs["require-app-label"] = 0
    /\ lastCollect.cs["require-owner-label"] = 3
    /\ Unlabelled(lastCollect.pods) = 1
    /\ Child(lastCollect.before.pv, <<"require-owner-label", "warning">>) > 0
    /\ Delta(POLICY_VIOLATIONS, lastCollect.before.pv, <<"require-owner-label", "warning">>) = 3
    /\ Delta(POLICY_VIOLATIONS, lastCollect.before.pv, <<"require-app-label", "warning">>) = 1

PodListingFailed ==
    Returned /\ lastCollect.configured /\ lastCollect.fault = "list_pods"

ConstraintListingFailed ==
    Returned /\ lastCollect.configured /\ lastCollect.fault = "list_constraints"

\* the violation entries the tick's listing holds for the constraint of label l
ListedFor(cs, l) ==
    IF l[2] = "warning" /\ l[1] \in DOMAIN cs THEN cs[l[1]] ELSE 0

\* C11: when the pod listing fails after the constraints were processed, the
\* tick keeps what it did before: every listed constraint's counter child is
\* up by its violation entries and its validation-duration gauge is set; what
\* comes after the listing is skipped: no pod-label increment, vulnerability
\* gauges, deployment-blocked counter and scan-status gauges as before.
PodListingFailureKeepsEarlierUpdates ==
    PodListingFailed
    => LET cs == lastCollect.cs
           before == lastCollect.before
           labels == DOMAIN POLICY_VIOLATIONS
                        \cup {<<n, "warning">> : n \in ConstraintNames}
       IN  /\ ~lastCollect.raised
           /\ \A l \in labels :
                Delta(POLICY_VIOLATIONS, before.pv, l) = ListedFor(cs, l)
           /\ \A n \in DOMAIN cs :
                /\ <<n>> \in DOMAIN POLICY_VALIDATION_DURATION
                /\ POLICY_VALIDATION_DURATION[<<n>>] = "0.05"
           /\ \A l \in DOMAIN POLICY_VALIDATION_DURATION :
                l[1] \notin DOMAIN cs
                   => /\ l \in DOMAIN before.pvd
                      /\ POLICY_VALIDATION_DURATION[l] = before.pvd[l]
           /\ VULNERABILITY_COUNT = before.vc
           /\ DEPLOYMENT_BLOCKED = before.db
           /\ VULNERABILITY_SCAN_STATUS = before.vss

\* C11 witness: the first tick listed a constraint with 3 violations and one
\* with none, then failed to list the pods: the counter and both duration
\* gauges are there, no vulnerability gauge is.
PodListingFailureKeepsEarlierUpdates_witness ==
    /\ PodListingFailed
    /\ eticks = 1
    /\ DOMAIN lastCollect.cs = ConstraintNames
    /\ lastCollect.cs["require-owner-label"] = 3
    /\ lastCollect.cs["require-app-label"] = 0
    /\ POLICY_VIOLATIONS = (<<"require-owner-label", "warning">> :> 3)
    /\ DOMAIN POLICY_VALIDATION_DURATION = {<<n>> : n \in ConstraintNames}
    /\ VULNERABILITY_COUNT = <<>>
    /\ VULNERABILITY_SCAN_STATUS = <<>>
    /\ DEPLOYMENT_BLOCKED = <<>>

\* C14: each scheduled task is idempotent per tick: run a second time against
\* the same external state (the cluster as the tick listed it, the table and
\* the clock as the task left them), it leaves the table and every metric as
\* they were after the first run.
TasksIdempotentPerTick ==
    /\ Succeeded
       => collect_gatekeeper_violations(
              POLICY_VIOLATIONS, POLICY_VALIDATION_DURATION, VULNERABILITY_COUNT,
              DEPLOYMENT_BLOCKED, VULNERABILITY_SCAN_STATUS,
              "incluster", "none", lastCollect.cs, lastCollect.pods)
          = ExportResult(FALSE, POLICY_VIOLATIONS, POLICY_VALIDATION_DURATION,
                VULNERABILITY_COUNT, DEPLOYMENT_BLOCKED, VULNERABILITY_SCAN_STATUS)
    /\ (lastCall.task = "cleanup_old_items" /\ ~TaskFailed(lastCall))
       => cleanup_old_items(store, schema, lastCall.at, "ok", "none").store = store
    /\ (lastCall.task = "process_pending_tasks" /\ ~TaskFailed(lastCall))
       => process_pending_tasks(store, schema, "ok", "none").store = store

\* C19: when the listing of the constraints fails, the tick changes no metric:
\* the pods are not listed, and every counter and gauge keeps its value.
ConstraintListingFailureChangesNothing ==
    ConstraintListingFailed
    => /\ ~lastCollect.raised
       /\ ~Called(ExportSteps, lastCollect.fault, "list_pods")
       /\ POLICY_VIOLATIONS = lastCollect.before.pv
       /\ POLICY_VALIDATION_DURATION = lastCollect.before.pvd
       /\ VULNERABILITY_COUNT = lastCollect.before.vc
       /\ DEPLOYMENT_BLOCKED = lastCollect.before.db
       /\ VULNERABILITY_SCAN_STATUS = lastCollect.before.vss

\* C19 witness: the listing failed in a tick that followed one which had left
\* counters and gauges behind.
ConstraintListingFailureChangesNothing_witness ==
    /\ ConstraintListingFailed
    /\ eticks = 2
    /\ DOMAIN POLICY_VIOLATIONS # {}
    /\ DOMAIN DEPLOYMENT_BLOCKED # {}
    /\ DOMAIN VULNERABILITY_COUNT # {}
    /\ POLICY_VIOLATIONS = lastCollect.before.pv

\* C20 as claimed: in a successful tick the pod scan passes over the pods of
\* kube-system, gatekeeper-system and monitoring and counts the others that
\* have no app label; the child policy='require-app-label' of the violations
\* counter goes up by exactly that count, and the child
\* reason='missing-required-labels' of the blocked counter by 1 when the count
\* is positive, by 0 otherwise.
PodScanCounterExact ==
    Succeeded
    => LET n == Unlabelled(lastCollect.pods)
       IN  /\ Delta(POLICY_VIOLATIONS, lastCollect.before.pv,
                    <<"require-app-label", "warning">>) = n
           /\ Delta(DEPLOYMENT_BLOCKED, lastCollect.before.db,
                    <<"missing-required-labels">>) = IF n > 0 THEN 1 ELSE 0

\* C20 amended: as claimed, but the child policy='require-app-label' goes up by
\* that count plus the violation entries of a constraint named
\* require-app-label, when the tick's listing holds one.
PodScanCounterExactButConstraint ==
    Succeeded
    => LET n == Unlabelled(lastCollect.pods)
           l == <<"require-app-label", "warning">>
       IN  /\ Delta(POLICY_VIOLATIONS, lastCollect.before.pv, l)
                 = n + ListedFor(lastCollect.cs, l)
           /\ Delta(DEPLOYMENT_BLOCKED, lastCollect.before.db,
                    <<"missing-required-labels">>) = IF n > 0 THEN 1 ELSE 0

\* C20 witness: a second tick found 2 application pods without the label next
\* to unlabelled pods of the system namespaces, and a constraint
\* require-app-label with 1 violation: the child is up by 3, the blocked
\* counter by 1.
PodScanCounterExactButConstraint_witness ==
    /\ Succeeded
    /\ eticks = 2
    /\ Unlabelled(lastCollect.pods) = 2
    /\ \E p \in lastCollect.pods : p.namespace \in SystemNamespaces /\ ~p.app
    /\ "require-app-label" \in DOMAIN lastCollect.cs
    /\ lastCollect.cs["require-app-label"] = 1
    /\ Delta(POLICY_VIOLATIONS, lastCollect.before.pv,
             <<"require-app-label", "warning">>) = 3
    /\ Child(lastCollect.before.db, <<"missing-required-labels">>) = 1
    /\ Child(DEPLOYMENT_BLOCKED, <<"missing-required-labels">>) = 2

----------------------------------------------------------------------------
\* Properties of the metrics registries

\* C12: over any sequence of requests and exporter ticks no child of a
\* Counter (api_requests_total, policy_violations_total,
\* deployment_blocked_total) ever decreases: a step leaves each child where it
\* was or adds a non-negative amount, and a child once created stays.
CountersNeverDecrease ==
    [][/\ \A l \in DOMAIN REQUEST_COUNT \cup DOMAIN REQUEST_COUNT' :
            Child(REQUEST_COUNT', l) >= Child(REQUEST_COUNT, l)
       /\ \A l \in DOMAIN POLICY_VIOLATIONS \cup DOMAIN POLICY_VIOLATIONS' :
            Child(POLICY_VIOLATIONS', l) >= Child(POLICY_VIOLATIONS, l)
       /\ \A l \in DOMAIN DEPLOYMENT_BLOCKED \cup DOMAIN DEPLOYMENT_BLOCKED' :
            Child(DEPLOYMENT_BLOCKED', l) >= Child(DEPLOYMENT_BLOCKED, l)
       /\ DOMAIN REQUEST_COUNT \subseteq DOMAIN REQUEST_COUNT'
       /\ DOMAIN POLICY_VIOLATIONS \subseteq DOMAIN POLICY_VIOLATIONS'
       /\ DOMAIN DEPLOYMENT_BLOCKED \subseteq DOMAIN DEPLOYMENT_BLOCKED']_vars

\* C12 witness: a request was answered after a tick of the exporter that had
\* counted violations and a blocked deployment: children of all three
\* counters are up.
CountersNeverDecrease_witness ==
    /\ requests = 1
    /\ eticks = 1
    /\ lastResp.handler = "get_items"
    /\ Child(REQUEST_COUNT, <<"GET", "/api/items", "success">>) = 1
    /\ Child(POLICY_VIOLATIONS, <<"require-owner-label", "warning">>) = 3
    /\ Child(DEPLOYMENT_BLOCKED, <<"missing-required-labels">>) = 1

RequestLabels ==
    {<<m, "/api/items", s>> : m \in {"GET", "POST"}, s \in {"success", "error"}}

\* C21: every GET /api/items and every POST /api/items adds exactly 1 to its
\* success child, whatever it answers; its error child gets 1 more exactly
\* when the GET had no connection or the POST body lacked a name, and nothing
\* otherwise: a request answered 500, and a POST answered 503, is counted as
\* a success only. No other child moves.
RequestsCountedAsSuccess ==
    lastResp.handler \in {"get_items", "create_item"}
    => LET m == IF lastResp.handler = "get_items" THEN "GET" ELSE "POST"
           before == lastResp.rcBefore
           failed == \/ lastResp.handler = "get_items"
                        /\ get_db_connection(lastResp.outcome) = Absent
                     \/ lastResp.handler = "create_item"
                        /\ lastResp.kind = "unnamed"
       IN  /\ REQUEST_COUNT = lastResp.result.rc
           /\ Delta(REQUEST_COUNT, before, <<m, "/api/items", "success">>) = 1
           /\ Delta(REQUEST_COUNT, before, <<m, "/api/items", "error">>) = B2N(failed)
           /\ lastResp.result.status = 500
                 => Delta(REQUEST_COUNT, before, <<m, "/api/items", "error">>) = 0
           /\ (lastResp.handler = "create_item" /\ lastResp.result.status = 503)
                 => Delta(REQUEST_COUNT, before, <<m, "/api/items", "error">>) = 0
           /\ \A l \in (DOMAIN REQUEST_COUNT \cup RequestLabels)
                         \ {<<m, "/api/items", "success">>, <<m, "/api/items", "error">>} :
                 Delta(REQUEST_COUNT, before, l) = 0

\* C21 witness: a POST with a name found no connection and was answered 503,
\* after a GET that had failed the same way: the POST's success child went
\* up, its error child did not.
RequestsCountedAsSuccess_witness ==
    /\ lastResp.handler = "create_item"
    /\ lastResp.kind = "named"
    /\ lastResp.outcome = "refused"
    /\ lastResp.result.status = 503
    /\ Child(lastResp.rcBefore, <<"GET", "/api/items", "error">>) = 1
    /\ Child(REQUEST_COUNT, <<"POST", "/api/items", "success">>) = 1
    /\ Child(REQUEST_COUNT, <<"POST", "/api/items", "error">>) = 0

----------------------------------------------------------------------------
\* Properties of the table shared by the worker and the API service

\* the rows the cleanup_old_items call observed last took out of the table
Removed == lastCall.before \ lastCall.result.store

\* C22: when worker ticks and POST/DELETE requests interleave, every row a
\* cleanup run removes has a created_at that precedes the cut-off the run
\* computed at its start (the clock it read then, less CLEANUP_DAYS), and no
\* row, in particular none inserted by create_item, is removed by a cleanup
\* that happens less than CLEANUP_DAYS after the row was created.
CleanupSparesYoungRows ==
    lastCall.task = "cleanup_old_items"
    => \A r \in Removed :
          /\ cleanupNow <= lastCall.at
          /\ r.created_at < cleanupNow - CLEANUP_DAYS
          /\ ~(lastCall.at - r.created_at < CLEANUP_DAYS)

\* a cleanup has removed a row that create_item had inserted more than
\* CLEANUP_DAYS before, and has left the row that a POST inserted after the
\* run had read the clock
CleanupSparesYoungRows_witness ==
    /\ lastCall.task = "cleanup_old_items"
    /\ lastCall.fault = "none"
    /\ Removed # {}
    /\ \E r \in lastCall.result.store : r.created_at > cleanupNow

====
